---- MODULE Spec2Model ----
(***************************************************************************)
(* Model of test-engine-core-modules/src/openapiconnector/openapiconnector.py *)
(*                                                                         *)
(* Plugin (the connector) : setup(), predict(), make_requests(),           *)
(*   _setup_api_authentication(), _notify_response_error()                 *)
(* OpenAPICustomTransport : handle_async_request(), handle_attempt_retries()*)
(*                                                                         *)
(* Strings the code builds with f-strings are modelled as sequences of     *)
(* string tokens (concatenation is \o, the empty string is << >>).         *)
(* None is modelled by a record of the same shape with a flag, so that     *)
(* every variable keeps one type.                                          *)
(*                                                                         *)
(* predict() is synchronous (it runs make_requests with asyncio.run), so    *)
(* concurrent calls are calls from several threads of the host. A caller's *)
(* steps are: the dispatch of an attempt, the sleep after it, entering the *)
(* lock, the assignment to the slot, leaving the lock, and the read of the *)
(* slot in predict's except clause, which takes no lock.                   *)
(*                                                                         *)
(* Library behaviour the source relies on and that is not in the           *)
(* repository: aiopenapi3 re-raises every exception of the session's send  *)
(* as aiopenapi3.RequestError (the reason predict() catches that type and  *)
(* reads the message from the class-level slot); the outcome of            *)
(* openapi_schema_validator.validate and of OpenAPI.loads is an attribute  *)
(* of the input; a loaded document without a components section has the   *)
(* library's empty Components object, and the schema of a parameter        *)
(* without the keyword enum has enum = None.                               *)
(*                                                                         *)
(* Plugin._lock is modelled with the documented semantics of asyncio.Lock: *)
(* one holder, waiters served in the order of their arrival.               *)
(***************************************************************************)
EXTENDS Integers, Sequences, FiniteSets, TLC

\* Largest value of Plugin._api_retries explored (the source's default is 3).
MaxRetries == 3

\* OpenAPICustomTransport._api_backoff_factor (2.0)
ApiBackoffFactor == 2

\* Plugin._api_rate_limit_timeout / OpenAPICustomTransport._api_rate_limit_timeout (5.0 s)
ApiRateLimitTimeout == 5

\* OpenAPICustomTransport._api_status_code
ApiStatusCode == {429, 500, 502, 503, 504}

\* The concurrent callers of predict() and the connector instances.
Tasks == {"t1", "t2"}

Instances == {"A", "B"}

VARIABLES
    api_retries,             \* Plugin._api_retries (class level, read by custom_session_factory)
    response_error_message,  \* Plugin._response_error_message (class level)
    lock,                    \* holder of Plugin._lock, or "free"
    conn,                    \* per connector instance: _api_schema, _api_config, _api_instance, _is_setup_completed
    setup_result,            \* per connector instance: what the last setup() call did
    task,                    \* per caller: position in predict()/handle_async_request and its locals
    callers,                 \* the threads of the host that call predict()
    last_writer,             \* history: the caller whose write the slot holds
    overlap                  \* history: the callers' current predict() calls were in flight together,
                             \* and no earlier call has overwritten what they wrote

vars == <<api_retries, response_error_message, lock, conn, setup_result, task, callers,
          last_writer, overlap>>

----------------------------------------------------------------------------
(* Strings *)

EmptyStr == << >>

\* http.HTTPStatus(code).name
HTTPStatusName(code) ==
    CASE code = 200 -> "OK"
      [] code = 404 -> "NOT_FOUND"
      [] code = 429 -> "TOO_MANY_REQUESTS"
      [] code = 500 -> "INTERNAL_SERVER_ERROR"
      [] code = 502 -> "BAD_GATEWAY"
      [] code = 503 -> "SERVICE_UNAVAILABLE"
      [] code = 504 -> "GATEWAY_TIMEOUT"
      [] OTHER -> "UNKNOWN"

\* f"Response status code: {response.status_code} ({http.HTTPStatus(response.status_code).name})"
StatusErrorMessage(code) ==
    <<"Response status code: ", ToString(code), " (", HTTPStatusName(code), ")">>

\* f"{str(exception)}"
ExceptionErrorMessage(exc) == <<exc>>

\* Faulty variant of MaxRetriesMessage: the attempt's message is left out.
MaxRetriesMessageWithoutDetail(retries, error_message) ==
    <<"Maximum retries exceeded (", ToString(retries), ") ">>

\* f"Maximum retries exceeded ({self._api_retries}) {error_message}"
MaxRetriesMessage(retries, error_message) ==
    <<"Maximum retries exceeded (", ToString(retries), ") ">> \o error_message

----------------------------------------------------------------------------
(* Inputs of the constructor: the contract document and the configuration  *)

\* One entry of an operation's parameters: in_ is the location, has_enum is
\* whether the parameter's schema has the keyword enum (schema_.enum is None
\* without it), enum its entries.
Parameter(name, in_, required, has_enum, enum) ==
    [name |-> name, in_ |-> in_, required |-> required, has_enum |-> has_enum, enum |-> enum]

\* One operation of the contract: paths[path][method]; content is the set of
\* keys of requestBody.content.
Operation(method, operationId, content, parameters) ==
    [method |-> method, operationId |-> operationId, content |-> content,
     parameters |-> parameters]

\* One entry of components.securitySchemes.
SecurityScheme(name, type, scheme) == [name |-> name, type |-> type, scheme |-> scheme]

\* kwargs["api_schema"]: has_paths is whether the document has the key "paths";
\* paths is the ordered dict of path items, each the ordered dict of its
\* operations; well_formed is whether OpenAPI.loads accepts the document;
\* has_components is whether the document has the section components, schemes
\* the entries of components.securitySchemes.
ApiSchema(has_paths, paths, well_formed, has_components, schemes) ==
    [has_paths |-> has_paths, paths |-> paths, well_formed |-> well_formed,
     has_components |-> has_components, security_schemes |-> schemes]

\* kwargs["api_config"]: valid is the outcome of validate(config, schema);
\* auth_kind says what config.get("authentication", {}) is: "absent" (the
\* default {}), "dict", or "nondict" (None, a string: anything without .get);
\* auth_keys are the keys of the dict.
ApiConfig(valid, auth_kind, auth_keys) ==
    [valid |-> valid, auth_kind |-> auth_kind, auth_keys |-> auth_keys]

PostJson == Operation("POST", "", {"application/json"}, << >>)

GetOp == Operation("get", "listItems", {}, << >>)

Schemas ==
    { ApiSchema(TRUE, << <<PostJson>> >>, TRUE, TRUE, << >>),
      ApiSchema(TRUE, << <<GetOp, PostJson>> >>, TRUE, TRUE,
                <<SecurityScheme("bearerAuth", "http", "bearer")>>),
      ApiSchema(TRUE, << <<PostJson>> >>, FALSE, TRUE, << >>),
      ApiSchema(TRUE, << <<PostJson>> >>, TRUE, FALSE, << >>),
      ApiSchema(FALSE, << >>, TRUE, TRUE, << >>) }

Configs ==
    { ApiConfig(TRUE, "dict", {"token"}),
      ApiConfig(TRUE, "nondict", {}),
      ApiConfig(FALSE, "absent", {}) }

\* The keys of requestBody.content that the contracts declare.
ContentTypes ==
    {"application/json", "multipart/form-data", "application/x-www-form-urlencoded",
     "text/plain"}

\* Contracts whose only operation is a POST declaring the content types S.
ContentSchemas ==
    { ApiSchema(TRUE, << <<Operation("post", "", S, << >>)>> >>, TRUE, TRUE, << >>) :
          S \in SUBSET ContentTypes }

\* The connector that concurrent callers share: setup() succeeds on it.
SharedConnectorInputs ==
    [schema |-> ApiSchema(TRUE, << <<GetOp, PostJson>> >>, TRUE, TRUE,
                          <<SecurityScheme("bearerAuth", "http", "bearer")>>),
     config |-> ApiConfig(TRUE, "dict", {"token"})]

\* self._api_instance = None
NoInstance == [loaded |-> FALSE, paths |-> << >>, security_schemes |-> << >>, credentials |-> {}]

\* Plugin.__init__ (a connector built with both inputs)
NewConnector(schema, config) ==
    [api_schema |-> schema, api_config |-> config,
     api_instance |-> NoInstance, is_setup_completed |-> FALSE]

SharedConnector == NewConnector(SharedConnectorInputs.schema, SharedConnectorInputs.config)

\* The spellings of the first operation's method that the contracts use.
Methods == {"post", "POST", "Post", "get", "GET", "put", "PUT", "delete"}

\* Contracts whose only operation has the method m.
MethodSchemas ==
    { ApiSchema(TRUE, << <<Operation(m, "", {"application/json"}, << >>)>> >>, TRUE, TRUE, << >>) :
          m \in Methods }

\* Contracts by the shape of paths: no path, a first path without operations,
\* two paths of one and two operations.
PathSchemas ==
    { ApiSchema(TRUE, << >>, TRUE, TRUE, << >>),
      ApiSchema(TRUE, << << >>, <<PostJson>> >>, TRUE, TRUE, << >>),
      ApiSchema(TRUE, << <<PostJson>>, <<GetOp, PostJson>> >>, TRUE, TRUE, << >>) }

\* Contracts by their security schemes: of every kind, only an apiKey, only a basic.
AuthSchemas ==
    { ApiSchema(TRUE, << <<PostJson>> >>, TRUE, TRUE,
                <<SecurityScheme("tokenAuth", "http", "bearer"),
                  SecurityScheme("userAuth", "HTTP", "Basic"),
                  SecurityScheme("digestAuth", "http", "digest"),
                  SecurityScheme("keyAuth", "apiKey", ""),
                  SecurityScheme("oauth", "oauth2", "")>>),
      ApiSchema(TRUE, << <<PostJson>> >>, TRUE, TRUE,
                <<SecurityScheme("keyAuth", "apiKey", "")>>),
      ApiSchema(TRUE, << <<PostJson>> >>, TRUE, TRUE,
                <<SecurityScheme("userAuth", "http", "basic")>>) }

\* Valid configurations by their authentication section: absent, or a dict
\* with any of the keys.
AuthConfigs ==
    { ApiConfig(TRUE, "absent", {}) }
    \cup { ApiConfig(TRUE, "dict", keys) : keys \in SUBSET {"token", "username", "password"} }

\* The parameter lists of the contracts' operations: a required header with an
\* enumeration, one without the keyword enum, one with an empty enumeration, an
\* optional header, a required query parameter.
ParameterLists ==
    LET withEnum == Parameter("X-Version", "header", TRUE, TRUE, <<"v1", "v2">>)
        noEnum == Parameter("X-Key", "header", TRUE, FALSE, << >>)
        emptyEnum == Parameter("X-Empty", "Header", TRUE, TRUE, << >>)
        optional == Parameter("X-Trace", "header", FALSE, TRUE, <<"on">>)
        query == Parameter("mode", "query", TRUE, TRUE, <<"fast">>)
    IN { <<withEnum>>, <<noEnum>>, <<emptyEnum>>, <<optional, query>>,
         <<optional, query, withEnum, emptyEnum>>, <<withEnum, noEnum>> }

\* Contracts whose only operation is a POST or a GET with the parameters ps.
ParameterSchemas ==
    { ApiSchema(TRUE, << <<Operation(m, "", {"application/json"}, ps)>> >>, TRUE, TRUE, << >>) :
          m \in {"post", "get"}, ps \in ParameterLists }

\* The connectors that a single caller drives.
Connectors ==
    { NewConnector(schema, config) : schema \in Schemas, config \in Configs }
    \cup { NewConnector(schema, ApiConfig(TRUE, "absent", {})) :
               schema \in ContentSchemas \cup MethodSchemas \cup PathSchemas
                          \cup ParameterSchemas }
    \cup { NewConnector(schema, config) : schema \in AuthSchemas, config \in AuthConfigs }

----------------------------------------------------------------------------
(* Plugin.setup                                                            *)
(* Each step takes and returns the record [c, exc]: c the connector, exc   *)
(* the str() of the exception raised so far ("" for none). A step does     *)
(* nothing once an exception is raised.                                    *)

\* is_success, error_message = self._perform_validation(); raise RuntimeError(error_message)
SetupValidate(s) ==
    IF s.exc # "" THEN s
    ELSE IF s.c.api_config.valid THEN s
    ELSE [s EXCEPT !.exc = "validation error"]

\* first_api_http_value.update({"operationId": "predict_api"}) on list(...items())[0] of list(...items())[0]
TagFirstOperation(paths) ==
    IF Len(paths) > 0 /\ Len(paths[1]) > 0
    THEN [paths EXCEPT ![1][1].operationId = "predict_api"]
    ELSE paths

\* path_to_be_updated = self._api_schema["paths"] ... (a KeyError without the key)
SetupTagOperation(s) ==
    IF s.exc # "" THEN s
    ELSE IF ~s.c.api_schema.has_paths THEN [s EXCEPT !.exc = "'paths'"]
    ELSE [s EXCEPT !.c.api_schema.paths = TagFirstOperation(s.c.api_schema.paths)]

\* self._api_instance.components.securitySchemes: the loaded document has the
\* library's empty Components object when the document has no such section.
ComponentsSecuritySchemes(schema) ==
    IF schema.has_components THEN schema.security_schemes ELSE << >>

\* self._api_instance = OpenAPI.loads(url="", data=json.dumps(self._api_schema), ...)
SetupLoadInstance(s) ==
    IF s.exc # "" THEN s
    ELSE IF ~s.c.api_schema.well_formed THEN [s EXCEPT !.exc = "invalid OpenAPI document"]
    ELSE [s EXCEPT !.c.api_instance =
             [loaded |-> TRUE, paths |-> s.c.api_schema.paths,
              security_schemes |-> ComponentsSecuritySchemes(s.c.api_schema),
              credentials |-> {}]]

\* self._api_config.get("authentication", {}).get(key, "")
ConfigAuthGet(config, key) ==
    IF config.auth_kind = "dict" /\ key \in config.auth_keys THEN "<" \o key \o ">" ELSE ""

Lower(str) ==
    CASE str = "POST" -> "post"
      [] str = "GET" -> "get"
      [] str = "HTTP" -> "http"
      [] str = "Bearer" -> "bearer"
      [] str = "Basic" -> "basic"
      [] str = "Header" -> "header"
      [] str = "PUT" -> "put"
      [] str = "Post" -> "post"
      [] OTHER -> str

\* Faulty variant of AuthenticateScheme: the values are read with [key], a
\* KeyError when the configuration does not have them.
AuthenticateSchemeKeyRequired(st, scheme, config) ==
    IF st.exc # "" THEN st
    ELSE IF Lower(scheme.type) = "http"
    THEN IF Lower(scheme.scheme) \in {"bearer", "basic"}
         THEN IF config.auth_kind # "dict"
              THEN [st EXCEPT !.exc = "'authentication'"]
              ELSE IF Lower(scheme.scheme) = "bearer"
              THEN IF "token" \notin config.auth_keys THEN [st EXCEPT !.exc = "'token'"]
                   ELSE [st EXCEPT !.credentials = {cr \in @ : cr.name # scheme.name} \cup
                        {[name |-> scheme.name, value |-> <<ConfigAuthGet(config, "token")>>]}]
              ELSE IF {"username", "password"} \subseteq config.auth_keys
              THEN [st EXCEPT !.credentials = {cr \in @ : cr.name # scheme.name} \cup
                        {[name |-> scheme.name,
                          value |-> <<ConfigAuthGet(config, "username"),
                                      ConfigAuthGet(config, "password")>>]}]
              ELSE [st EXCEPT !.exc = "'username'"]
         ELSE st
    ELSE st

\* The body of the for loop of _setup_api_authentication for one scheme:
\* st is [credentials, exc].
AuthenticateScheme(st, scheme, config) ==
    IF st.exc # "" THEN st
    ELSE IF Lower(scheme.type) = "http"
    THEN IF Lower(scheme.scheme) \in {"bearer", "basic"}
         THEN IF config.auth_kind = "nondict"
              THEN [st EXCEPT !.exc = "object has no attribute 'get'"]
              ELSE IF Lower(scheme.scheme) = "bearer"
              THEN [st EXCEPT !.credentials = {cr \in @ : cr.name # scheme.name} \cup
                        {[name |-> scheme.name, value |-> <<ConfigAuthGet(config, "token")>>]}]
              ELSE [st EXCEPT !.credentials = {cr \in @ : cr.name # scheme.name} \cup
                        {[name |-> scheme.name,
                          value |-> <<ConfigAuthGet(config, "username"),
                                      ConfigAuthGet(config, "password")>>]}]
         ELSE st
    ELSE st

RECURSIVE AuthenticateAll(_, _, _)
\* for api_key in api_key_list: ...
AuthenticateAll(st, schemes, config) ==
    IF schemes = << >> THEN st
    ELSE AuthenticateAll(AuthenticateScheme(st, Head(schemes), config), Tail(schemes), config)

\* Faulty variant of SetupApiAuthentication: the first scheme is looked at
\* before the loop (api_key_list[0]), an IndexError without schemes.
SetupApiAuthenticationFirstScheme(s) ==
    IF s.exc # "" THEN s
    ELSE IF s.c.api_instance.security_schemes = << >>
    THEN [s EXCEPT !.exc = "list index out of range"]
    ELSE LET st == AuthenticateAll([credentials |-> s.c.api_instance.credentials, exc |-> ""],
                                   s.c.api_instance.security_schemes, s.c.api_config)
         IN [s EXCEPT !.c.api_instance.credentials = st.credentials, !.exc = st.exc]

\* self._setup_api_authentication()
SetupApiAuthentication(s) ==
    IF s.exc # "" THEN s
    ELSE LET st == AuthenticateAll([credentials |-> s.c.api_instance.credentials, exc |-> ""],
                                   s.c.api_instance.security_schemes, s.c.api_config)
         IN [s EXCEPT !.c.api_instance.credentials = st.credentials, !.exc = st.exc]

\* self._is_setup_completed = True
SetupComplete(s) ==
    IF s.exc # "" THEN s
    ELSE [s EXCEPT !.c.is_setup_completed = TRUE]

\* Faulty variant of SetupReturn: except RuntimeError, so that the KeyError of a
\* document without paths leaves setup() as an exception.
SetupReturnRuntimeErrorOnly(s) ==
    IF s.exc = ""
    THEN [raised |-> FALSE, ok |-> TRUE, message |-> ""]
    ELSE IF s.exc = "'paths'"
    THEN [raised |-> TRUE, ok |-> FALSE, message |-> s.exc]
    ELSE [raised |-> FALSE, ok |-> FALSE, message |-> s.exc]

\* try: ... return True, ""   except Exception as exception: return False, str(exception)
SetupReturn(s) ==
    IF s.exc = ""
    THEN [raised |-> FALSE, ok |-> TRUE, message |-> ""]
    ELSE [raised |-> FALSE, ok |-> FALSE, message |-> s.exc]

\* The body of the try block of setup(), in the order of the source.
SetupBody(c) ==
    SetupComplete(SetupApiAuthentication(SetupLoadInstance(SetupTagOperation(
        SetupValidate([c |-> c, exc |-> ""])))))

NoSetupResult == [raised |-> FALSE, ok |-> FALSE, message |-> "not called"]

\* setup() on connector instance i
Setup(i) ==
    /\ LET s == SetupBody(conn[i])
       IN /\ conn' = [conn EXCEPT ![i] = s.c]
          /\ setup_result' = [setup_result EXCEPT ![i] = SetupReturn(s)]
    /\ UNCHANGED <<api_retries, response_error_message, lock, task, callers, last_writer, overlap>>

----------------------------------------------------------------------------
(* OpenAPICustomTransport                                                  *)

\* What one dispatch to httpx.AsyncHTTPTransport.handle_async_request yields:
\* a response (status, text) or an exception (exc its class and its str()).
Response(status) == [kind |-> "response", status |-> status, exc |-> "", text |-> "body"]

Raised(exc) == [kind |-> "exception", status |-> 0, exc |-> exc, text |-> ""]

NoOutcome == [kind |-> "none", status |-> 0, exc |-> "", text |-> ""]

\* except (httpx.ConnectTimeout, httpx.ReadTimeout, httpx.NetworkError)
CaughtExceptions == {"ConnectTimeout", "ReadTimeout", "NetworkError"}

\* The outcomes explored: 200 and 404 are outside the retry list, 429 and 503
\* inside; ReadTimeout is caught, RemoteProtocolError (a httpx.TransportError
\* that is neither a timeout nor a NetworkError) is not.
DispatchOutcomes ==
    {Response(200), Response(404), Response(429), Response(503),
     Raised("ReadTimeout"), Raised("RemoteProtocolError")}

\* 2 ** e in Python: an int for e >= 0, the float 1 / 2 ** -e below (a fraction here)
PyPow2(e) == IF e >= 0 THEN [num |-> 2 ^ e, den |-> 1] ELSE [num |-> 1, den |-> 2 ^ (0 - e)]

\* int(factor * q) for factor, q >= 0: truncation
PyIntTimes(factor, q) == (factor * q.num) \div q.den

\* Faulty variant of BackoffTiming: 2 ** attempt in place of 2 ** (attempt - 1)
BackoffTimingFromAttempt(attempt, status_code) ==
    IF status_code # 0 /\ status_code = 429
    THEN ApiRateLimitTimeout
    ELSE PyIntTimes(ApiBackoffFactor, PyPow2(attempt))

\* Faulty variant of BackoffTiming: the rate-limit branch is missing
BackoffTimingWithoutRateLimit(attempt, status_code) ==
    PyIntTimes(ApiBackoffFactor, PyPow2(attempt - 1))

\* if status_code and status_code == 429: ... else: int(factor * (2 ** (attempt - 1)))
\* (status_code is 0 here for None)
BackoffTiming(attempt, status_code) ==
    IF status_code # 0 /\ status_code = 429
    THEN ApiRateLimitTimeout
    ELSE PyIntTimes(ApiBackoffFactor, PyPow2(attempt - 1))

\* handle_attempt_retries: whether it sleeps, and for how long
HandleAttemptRetries(attempt, status_code, retries) ==
    IF attempt = retries
    THEN [sleep |-> FALSE, delay |-> 0]
    ELSE [sleep |-> TRUE, delay |-> BackoffTiming(attempt, status_code)]

\* response.status_code not in self._api_status_code
IsPassedThrough(o) == o.kind = "response" /\ o.status \notin ApiStatusCode

\* The outcomes after which the loop goes on: a caught exception or a listed status.
IsRetryable(o) ==
    \/ o.kind = "exception" /\ o.exc \in CaughtExceptions
    \/ o.kind = "response" /\ o.status \in ApiStatusCode

\* try / except / else of one iteration of the for loop, before its finally:
\* the new error_message and what is pending ("return" the response, "raise"
\* the exception that was not caught, "sleep" and go on, or "next": go on at once).
HandleOutcome(attempt, error_message, o, retries) ==
    IF o.kind = "exception"
    THEN IF o.exc \in CaughtExceptions
         THEN LET h == HandleAttemptRetries(attempt, 0, retries)
              IN [error_message |-> ExceptionErrorMessage(o.exc),
                  pending |-> IF h.sleep THEN "sleep" ELSE "next", delay |-> h.delay]
         ELSE [error_message |-> error_message, pending |-> "raise", delay |-> 0]
    ELSE IF o.status \notin ApiStatusCode
         THEN [error_message |-> error_message, pending |-> "return", delay |-> 0]
         ELSE LET h == HandleAttemptRetries(attempt, o.status, retries)
              IN [error_message |-> StatusErrorMessage(o.status),
                  pending |-> IF h.sleep THEN "sleep" ELSE "next", delay |-> h.delay]

\* finally: if attempt == self._api_retries: await callback(...); raise RuntimeError(...)
\* A raise in a finally clause replaces the pending return or exception.
FinallyExceeded(attempt, retries) == attempt = retries

\* Faulty variant of AttemptRange: range(self._api_retries)
AttemptRangeShort(retries) == 0 .. (retries - 1)

\* for attempt in range(self._api_retries + 1)
AttemptRange(retries) == 0 .. retries

\* The position after an iteration's try statement: "notify" is the callback of
\* the finally clause, "returned" the response going back to make_requests,
\* "except" an exception going up to predict (as aiopenapi3.RequestError),
\* "sleep" the asyncio.sleep of handle_attempt_retries, "dispatch" the next
\* iteration. Falling off the loop returns None, which the client cannot send on.
AfterAttempt(attempt, pending, retries) ==
    IF FinallyExceeded(attempt, retries) THEN "notify"
    ELSE CASE pending = "return" -> "returned"
           [] pending = "raise" -> "except"
           [] pending = "sleep" -> "sleep"
           [] OTHER -> IF attempt + 1 \in AttemptRange(retries) THEN "dispatch" ELSE "except"

----------------------------------------------------------------------------
(* Plugin.predict / Plugin.make_requests                                   *)

NoResult == [kind |-> "none", exc |-> "", message |-> EmptyStr, value |-> "", printed |-> ""]

\* What make_requests hands to predict_api.request: the content type whose
\* schema builds the body ("" for body = None) and the header parameters.
NoRequest == [content_type |-> "", headers |-> {}]

IdleTask ==
    [pc |-> "idle", inst |-> "A", attempt |-> 0, error_message |-> EmptyStr,
     outcome |-> NoOutcome, delay |-> 0, dispatches |-> 0, wrote |-> FALSE,
     own |-> FALSE, request |-> NoRequest, result |-> NoResult]

RECURSIVE Flatten(_)
\* The operations of the document, in its order.
Flatten(paths) == IF paths = << >> THEN << >> ELSE Head(paths) \o Flatten(Tail(paths))

\* self._api_instance._.predict_api: the operations whose operationId is predict_api
PredictApiOperations(instance) ==
    SelectSeq(Flatten(instance.paths), LAMBDA op : op.operationId = "predict_api")

\* Faulty variant of SchemaContentType: multipart/form-data is looked for first.
SchemaContentTypeMultipartFirst(content) ==
    IF "multipart/form-data" \in content THEN "multipart/form-data"
    ELSE IF "application/json" \in content THEN "application/json"
    ELSE IF "application/x-www-form-urlencoded" \in content
    THEN "application/x-www-form-urlencoded"
    ELSE ""

\* get_schema_content: the content type whose schema is used, "" for NotImplementedError
SchemaContentType(content) ==
    IF "application/json" \in content THEN "application/json"
    ELSE IF "multipart/form-data" \in content THEN "multipart/form-data"
    ELSE IF "application/x-www-form-urlencoded" \in content
    THEN "application/x-www-form-urlencoded"
    ELSE ""

\* The body of the for loop over predict_api.parameters for one parameter:
\* st is [headers, exc]. len(None) is a TypeError.
PopulateHeader(st, parameter) ==
    IF st.exc # "" THEN st
    ELSE IF Lower(parameter.in_) = "header" /\ parameter.required
    THEN IF ~parameter.has_enum THEN [st EXCEPT !.exc = "TypeError"]
         ELSE IF Len(parameter.enum) > 0
         THEN [st EXCEPT !.headers = {h \in @ : h.name # parameter.name} \cup
                   {[name |-> parameter.name, value |-> parameter.enum[1]]}]
         ELSE st
    ELSE st

RECURSIVE PopulateHeaders(_, _)
\* headers = dict(); for parameter in self._api_instance._.predict_api.parameters: ...
PopulateHeaders(st, parameters) ==
    IF parameters = << >> THEN st
    ELSE PopulateHeaders(PopulateHeader(st, Head(parameters)), Tail(parameters))

\* The headers of the get branch: the fixed payload.
GetHeaders == {[name |-> "payload", value |-> "payload"]}

\* Faulty variant of MakeRequests: every method other than post is sent as a get.
MakeRequestsAnyMethod(instance) ==
    IF ~instance.loaded THEN [exc |-> "AttributeError", request |-> NoRequest]
    ELSE IF PredictApiOperations(instance) = << >>
    THEN [exc |-> "KeyError", request |-> NoRequest]
    ELSE LET op == Head(PredictApiOperations(instance))
         IN IF Lower(op.method) = "post"
            THEN IF SchemaContentType(op.content) = ""
                 THEN [exc |-> "NotImplementedError", request |-> NoRequest]
                 ELSE LET st == PopulateHeaders([headers |-> {}, exc |-> ""], op.parameters)
                      IN IF st.exc # "" THEN [exc |-> st.exc, request |-> NoRequest]
                         ELSE [exc |-> "",
                               request |-> [content_type |-> SchemaContentType(op.content),
                                            headers |-> st.headers]]
            ELSE [exc |-> "", request |-> [content_type |-> "", headers |-> GetHeaders]]

\* make_requests up to its await of predict_api.request: exc is "" when the
\* request goes out, else the exception it raises; request is what goes out.
MakeRequests(instance) ==
    IF ~instance.loaded THEN [exc |-> "AttributeError", request |-> NoRequest]
    ELSE IF PredictApiOperations(instance) = << >>
    THEN [exc |-> "KeyError", request |-> NoRequest]
    ELSE LET op == Head(PredictApiOperations(instance))
         IN IF Lower(op.method) = "post"
            THEN IF SchemaContentType(op.content) = ""
                 THEN [exc |-> "NotImplementedError", request |-> NoRequest]
                 ELSE LET st == PopulateHeaders([headers |-> {}, exc |-> ""], op.parameters)
                      IN IF st.exc # "" THEN [exc |-> st.exc, request |-> NoRequest]
                         ELSE [exc |-> "",
                               request |-> [content_type |-> SchemaContentType(op.content),
                                            headers |-> st.headers]]
            ELSE IF Lower(op.method) = "get"
            THEN [exc |-> "", request |-> [content_type |-> "", headers |-> GetHeaders]]
            ELSE [exc |-> "RuntimeError", request |-> NoRequest]

\* The exception make_requests raises before any request goes out ("" for none).
MakeRequestsError(instance) == MakeRequests(instance).exc

\* str() of the exception make_requests raises
MakeRequestsMessage(exc) ==
    IF exc = "RuntimeError" THEN <<"Unexpected api method">> ELSE <<exc>>

Other(t) == CHOOSE u \in Tasks : u # t

\* The error slot as connector instance i reads it: _response_error_message is
\* an attribute of the class Plugin, the same object for every instance.
SlotOf(i) == response_error_message

InFlight(t) == task[t].pc # "idle"

\* predict() is called on connector i: make_requests runs up to the first
\* dispatch of handle_async_request, or raises. Only aiopenapi3.RequestError
\* is caught by predict, so what make_requests raises itself goes to the caller.
PredictStart(t, i) ==
    /\ t \in callers
    /\ task[t].pc = "idle"
    /\ LET exc == MakeRequestsError(conn[i].api_instance)
       IN task' = [task EXCEPT ![t] =
            IF exc # ""
            THEN [IdleTask EXCEPT !.inst = i,
                      !.result = [NoResult EXCEPT !.kind = "raise", !.exc = exc,
                                      !.message = MakeRequestsMessage(exc)]]
            ELSE [IdleTask EXCEPT !.inst = i, !.pc = "dispatch", !.attempt = 0,
                      !.dispatches = 1,
                      !.request = MakeRequests(conn[i].api_instance).request]]
    /\ overlap' = (InFlight(Other(t)) /\ ~(task[Other(t)].wrote /\ last_writer # Other(t)))
    /\ UNCHANGED <<api_retries, response_error_message, lock, conn, setup_result, callers,
                   last_writer>>

\* response = await super().handle_async_request(request) completes with outcome o;
\* the try statement runs up to the next suspension point.
DispatchReturn(t, o) ==
    /\ task[t].pc = "dispatch"
    /\ LET h == HandleOutcome(task[t].attempt, task[t].error_message, o, api_retries)
           next == AfterAttempt(task[t].attempt, h.pending, api_retries)
       IN task' = [task EXCEPT ![t] =
            [@ EXCEPT !.outcome = IF next = "dispatch" THEN NoOutcome ELSE o,
                      !.error_message = h.error_message,
                      !.delay = IF next = "sleep" THEN h.delay ELSE 0,
                      !.pc = next,
                      !.attempt = IF next = "dispatch" THEN @ + 1 ELSE @,
                      !.dispatches = IF next = "dispatch" THEN @ + 1 ELSE @]]
    /\ UNCHANGED <<api_retries, response_error_message, lock, conn, setup_result,
                   callers, last_writer, overlap>>

\* await asyncio.sleep(backoff_timing) completes: the next iteration dispatches.
SleepDone(t) ==
    /\ task[t].pc = "sleep"
    /\ task' = [task EXCEPT ![t] =
            IF task[t].attempt + 1 \in AttemptRange(api_retries)
            THEN [@ EXCEPT !.pc = "dispatch", !.attempt = @ + 1, !.dispatches = @ + 1,
                           !.delay = 0, !.outcome = NoOutcome]
            ELSE [@ EXCEPT !.pc = "except", !.delay = 0]]
    /\ UNCHANGED <<api_retries, response_error_message, lock, conn, setup_result,
                   callers, last_writer, overlap>>

\* _notify_response_error: async with Plugin._lock (entered)
NotifyAcquire(t) ==
    /\ task[t].pc = "notify"
    /\ lock = "free"
    /\ lock' = t
    /\ task' = [task EXCEPT ![t].pc = "write"]
    /\ UNCHANGED <<api_retries, response_error_message, conn, setup_result, callers,
                   last_writer, overlap>>

\* Faulty variant of NotifyWrite: the callback is given error_message, not the whole message.
NotifyWriteDetailOnly(t) ==
    /\ task[t].pc = "write"
    /\ response_error_message' = task[t].error_message
    /\ last_writer' = t
    /\ task' = [task EXCEPT ![t].pc = "release", ![t].wrote = TRUE]
    /\ UNCHANGED <<api_retries, lock, conn, setup_result, callers, overlap>>

\* Plugin._response_error_message = error_message
NotifyWrite(t) ==
    /\ task[t].pc = "write"
    /\ response_error_message' = MaxRetriesMessage(api_retries, task[t].error_message)
    /\ last_writer' = t
    /\ task' = [task EXCEPT ![t].pc = "release", ![t].wrote = TRUE]
    /\ UNCHANGED <<api_retries, lock, conn, setup_result, callers, overlap>>

\* Faulty variant of NotifyRelease: the callback goes on without leaving the lock.
NotifyReleaseKeepsLock(t) ==
    /\ task[t].pc = "release"
    /\ task' = [task EXCEPT ![t].pc = "except"]
    /\ UNCHANGED <<api_retries, response_error_message, lock, conn, setup_result, callers,
                   last_writer, overlap>>

\* async with Plugin._lock (left); then raise RuntimeError(...), which reaches
\* predict as aiopenapi3.RequestError
NotifyRelease(t) ==
    /\ task[t].pc = "release"
    /\ lock' = "free"
    /\ task' = [task EXCEPT ![t].pc = "except"]
    /\ UNCHANGED <<api_retries, response_error_message, conn, setup_result, callers,
                   last_writer, overlap>>

\* except aiopenapi3.RequestError: raise RuntimeError(Plugin._response_error_message)
PredictExcept(t) ==
    /\ task[t].pc = "except"
    /\ task' = [task EXCEPT ![t].pc = "idle",
                            ![t].own = task[t].wrote /\ last_writer = t,
                            ![t].result = [NoResult EXCEPT !.kind = "raise",
                                               !.exc = "RuntimeError",
                                               !.message = response_error_message]]
    /\ UNCHANGED <<api_retries, response_error_message, lock, conn, setup_result,
                   callers, last_writer, overlap>>

\* Faulty variant of PredictReturn: a call that got its response resets the slot.
PredictReturnClearsSlot(t) ==
    /\ task[t].pc = "returned"
    /\ task' = [task EXCEPT ![t].pc = "idle",
                            ![t].result = [NoResult EXCEPT !.kind = "return",
                                               !.value = "None",
                                               !.printed = task[t].outcome.text]]
    /\ response_error_message' = EmptyStr
    /\ UNCHANGED <<api_retries, lock, conn, setup_result, callers, last_writer, overlap>>

\* responses = asyncio.run(self.make_requests()); print(responses.text)
\* predict has no return statement: the caller gets None.
PredictReturn(t) ==
    /\ task[t].pc = "returned"
    /\ task' = [task EXCEPT ![t].pc = "idle",
                            ![t].result = [NoResult EXCEPT !.kind = "return",
                                               !.value = "None",
                                               !.printed = task[t].outcome.text]]
    /\ UNCHANGED <<api_retries, response_error_message, lock, conn, setup_result,
                   callers, last_writer, overlap>>

----------------------------------------------------------------------------

Init ==
    /\ api_retries \in 0 .. MaxRetries
    /\ response_error_message = EmptyStr
    /\ lock = "free"
    /\ \/ /\ callers = {"t1"}
          /\ \E c \in Connectors : conn = [i \in {"A"} |-> c]
       \/ /\ callers = Tasks
          /\ conn = [i \in {"A"} |-> SharedConnector]
       \/ /\ callers = {"t1"}
          /\ conn = [i \in Instances |-> SharedConnector]
    /\ setup_result = [i \in DOMAIN conn |-> NoSetupResult]
    /\ task = [t \in Tasks |-> IdleTask]
    /\ last_writer = "none"
    /\ overlap = FALSE

Next ==
    \/ \E i \in DOMAIN conn : Setup(i)
    \/ \E t \in Tasks, i \in DOMAIN conn : PredictStart(t, i)
    \/ \E t \in Tasks, o \in DispatchOutcomes : DispatchReturn(t, o)
    \/ \E t \in Tasks : SleepDone(t)
    \/ \E t \in Tasks : NotifyAcquire(t)
    \/ \E t \in Tasks : NotifyWrite(t)
    \/ \E t \in Tasks : NotifyRelease(t)
    \/ \E t \in Tasks : PredictExcept(t)
    \/ \E t \in Tasks : PredictReturn(t)

Spec == Init /\ [][Next]_vars

\* The scheduling of the callback: the body of `async with Plugin._lock` has no
\* await, so a caller that has entered it runs to the end of the block, and
\* asyncio.Lock hands the lock to its waiters in the order of their arrival,
\* so a waiter is not passed over for ever.
FairSpec ==
    /\ Spec
    /\ \A t \in Tasks : /\ SF_vars(NotifyAcquire(t))
                        /\ WF_vars(NotifyWrite(t))
                        /\ WF_vars(NotifyRelease(t))

\* The premise of termination: every dispatch and every sleep completes (the
\* attempt timeouts of the underlying transport, the timer of asyncio.sleep),
\* next to the scheduling of the callback.
SendFairSpec ==
    /\ FairSpec
    /\ \A t \in Tasks : /\ WF_vars(\E o \in DispatchOutcomes : DispatchReturn(t, o))
                        /\ WF_vars(SleepDone(t))

----------------------------------------------------------------------------
(* Properties                                                              *)

\* A call of predict() by t has ended (its result is the caller's).
Finished(t) == task[t].pc = "idle" /\ task[t].result.kind # "none"

\* The failure message of one attempt, as section 4.4 of the design words it.
AttemptFailureMessage(o) ==
    IF o.kind = "exception" THEN <<o.exc>>
    ELSE <<"Response status code: ", ToString(o.status), " (", HTTPStatusName(o.status), ")">>

\* The message of RetryExhausted for a terminal failure o.
ExhaustedMessage(o) ==
    <<"Maximum retries exceeded (", ToString(api_retries), ") ">> \o AttemptFailureMessage(o)

\* C1: whenever an attempt of a send (the terminal one included) has yielded a
\* response whose status is outside {429, 500, 502, 503, 504}, the send returns
\* that response: it neither sleeps, nor dispatches again, nor writes the error
\* slot, nor fails with "Maximum retries exceeded".
C1_PassedThroughIsReturned ==
    \A t \in Tasks :
        IsPassedThrough(task[t].outcome) =>
            /\ task[t].pc \in {"returned", "idle"}
            /\ ~task[t].wrote
            /\ task[t].pc = "idle" => task[t].result.kind = "return"

\* C2 (as claimed): a predict() whose maxRetries + 1 attempts all ended in a
\* retryable outcome fails with exactly "Maximum retries exceeded (<maxRetries>)
\* <message of its terminal attempt's failure>".
\* It is stated here for the states in which no caller's send has ended on a
\* passed-through response, so that its refutation does not rest on C1.
C2_OwnTerminalMessage ==
    \A t \in Tasks :
        (Finished(t) /\ task[t].result.kind = "raise" /\ IsRetryable(task[t].outcome)
            /\ task[t].attempt = api_retries
            /\ \A u \in Tasks : ~IsPassedThrough(task[u].outcome)) =>
            task[t].result.message = ExhaustedMessage(task[t].outcome)

\* C2 (amended), the step that writes the slot: the send whose terminal attempt
\* ended in a retryable outcome writes its own message.
C2_WriteStep(t) ==
    (task[t].pc = "write" /\ task'[t].pc = "release" /\ IsRetryable(task[t].outcome)) =>
        /\ task[t].attempt = api_retries
        /\ task[t].dispatches = api_retries + 1
        /\ response_error_message' = ExhaustedMessage(task[t].outcome)

\* C2 (amended), the step in which predict fails: its message is what the slot
\* holds then; it starts with "Maximum retries exceeded (<maxRetries>) "; it is
\* the call's own message when the call is the slot's last writer.
C2_FailStep(t) ==
    (task[t].pc = "except" /\ task'[t].pc = "idle" /\ task[t].wrote
        /\ IsRetryable(task[t].outcome)) =>
        /\ task'[t].result.kind = "raise"
        /\ task'[t].result.message = response_error_message'
        /\ Len(task'[t].result.message) >= 3
        /\ SubSeq(task'[t].result.message, 1, 3) =
               <<"Maximum retries exceeded (", ToString(api_retries), ") ">>
        /\ last_writer = t => task'[t].result.message = ExhaustedMessage(task[t].outcome)

\* C2 (amended): after maxRetries + 1 attempts that each ended in a retryable
\* outcome, the send writes "Maximum retries exceeded (<maxRetries>) <message of
\* the terminal attempt's failure>" into the slot, and predict() fails with the
\* value the slot holds when predict reads it: a "Maximum retries exceeded
\* (<maxRetries>) ..." message, the call's own unless another call's failure
\* finalization has overwritten the slot in between.
C2_ExhaustedMessage == [][\A t \in Tasks : C2_WriteStep(t) /\ C2_FailStep(t)]_vars

\* C2 witness: a call whose attempts were all retryable has failed with its own message.
C2_Witness ==
    \E t \in Tasks :
        /\ Finished(t) /\ task[t].wrote /\ task[t].own
        /\ IsRetryable(task[t].outcome)
        /\ api_retries >= 1
        /\ task[t].result.message = ExhaustedMessage(task[t].outcome)
        /\ response_error_message = task[t].result.message

\* C3, the count: a send dispatches at most maxRetries + 1 times, the attempt in
\* flight is the one with the index of the dispatches before it, and a send all
\* of whose attempts were retryable has dispatched exactly maxRetries + 1 times.
C3_Count ==
    \A t \in Tasks :
        /\ task[t].dispatches <= api_retries + 1
        /\ task[t].pc = "dispatch" => task[t].attempt = task[t].dispatches - 1
        /\ (Finished(t) /\ IsRetryable(task[t].outcome)) => task[t].dispatches = api_retries + 1

\* C3, the order: within a send the next dispatch is that of attempt a + 1, and
\* it happens only when the sleep that followed attempt a's retryable outcome ends.
C3_Order ==
    \A t \in Tasks :
        /\ (task[t].pc # "idle" /\ task'[t].dispatches # task[t].dispatches) =>
               /\ task[t].pc = "sleep"
               /\ IsRetryable(task[t].outcome)
               /\ task'[t].pc = "dispatch"
               /\ task'[t].attempt = task[t].attempt + 1
               /\ task'[t].dispatches = task[t].dispatches + 1
        /\ (task[t].pc = "idle" /\ task'[t].pc = "dispatch") =>
               task'[t].attempt = 0 /\ task'[t].dispatches = 1

\* C3: at most maxRetries + 1 dispatches per send, exactly that many when every
\* attempt is retryable, in the order 0, 1, ..., each after the previous
\* attempt's retryable outcome and sleep.
C3_Dispatches == [](C3_Count) /\ [][C3_Order]_vars

\* C3 witness: a send with maxRetries >= 2 has exhausted its attempts.
C3_Witness ==
    \E t \in Tasks :
        /\ Finished(t) /\ IsRetryable(task[t].outcome)
        /\ api_retries >= 2 /\ task[t].dispatches = api_retries + 1

\* floor(backoffFactor * 2^(a - 1)) for a >= 0
FloorBackoff(a) == (ApiBackoffFactor * (2 ^ a)) \div 2

\* C4: the sleep that follows a retryable failure other than 429 at attempt a
\* lasts floor(backoffFactor * 2^(a - 1)) seconds (1, 2, 4 for maxRetries = 3),
\* and none follows the terminal attempt, after which the send fails at once.
C4_BackoffDelay ==
    \A t \in Tasks :
        /\ (task[t].pc = "sleep" /\ task[t].outcome.status # 429) =>
               /\ task[t].attempt < api_retries
               /\ task[t].delay = FloorBackoff(task[t].attempt)
               /\ api_retries = 3 => task[t].delay = <<1, 2, 4>>[task[t].attempt + 1]
        /\ (IsRetryable(task[t].outcome) /\ task[t].attempt = api_retries) =>
               task[t].pc \in {"notify", "write", "release", "except", "idle"}

\* C4 witness: the third sleep of a send with maxRetries = 3 (4 s, after a 503).
C4_Witness ==
    \E t \in Tasks :
        /\ api_retries = 3 /\ task[t].pc = "sleep" /\ task[t].attempt = 2
        /\ task[t].outcome.status = 503 /\ task[t].delay = 4

\* C5: the sleep that follows a 429 lasts rateLimitTimeout whatever the attempt,
\* and no sleep follows a 429 on the terminal attempt.
C5_RateLimitDelay ==
    \A t \in Tasks :
        task[t].outcome.status = 429 =>
            /\ task[t].pc = "sleep" =>
                   (task[t].delay = ApiRateLimitTimeout /\ task[t].attempt < api_retries)
            /\ task[t].attempt < api_retries => task[t].pc = "sleep"
            /\ task[t].attempt = api_retries => task[t].pc # "sleep"

\* C5 witness: a sleep after a 429 on the second attempt.
C5_Witness ==
    \E t \in Tasks :
        task[t].pc = "sleep" /\ task[t].outcome.status = 429 /\ task[t].attempt = 1
            /\ task[t].delay = 5 /\ api_retries = 3

\* C6: when two overlapping predict() calls have both ended, one with a
\* returned response and the other by exhausting its retries, the slot holds
\* the failing call's whole message, and the succeeding call has not written.
C6_ConcurrentSlot ==
    \A t \in Tasks : \A u \in Tasks \ {t} :
        (overlap /\ Finished(t) /\ Finished(u)
            /\ task[t].result.kind = "return"
            /\ task[u].result.kind = "raise" /\ task[u].wrote) =>
            /\ ~task[t].wrote
            /\ last_writer = u
            /\ response_error_message =
                   <<"Maximum retries exceeded (", ToString(api_retries), ") ">>
                       \o task[u].error_message
            /\ task[u].result.message = response_error_message

\* C6 witness: the failing call ended first, the succeeding one after it.
C6_Witness ==
    \E t \in Tasks : \E u \in Tasks \ {t} :
        /\ overlap /\ Finished(t) /\ Finished(u)
        /\ task[t].result.kind = "return" /\ task[t].dispatches >= 2
        /\ task[u].result.kind = "raise" /\ task[u].wrote
        /\ IsRetryable(task[u].outcome)

\* C7: a setup() that returns failure leaves the connector as it was.
C7_FailedSetupChangesNothing ==
    [][\A i \in DOMAIN conn : (Setup(i) /\ ~setup_result'[i].ok) => conn'[i] = conn[i]]_vars

\* C8: a request is dispatched only for a connector whose setup() has succeeded.
C8_DispatchOnlyWhenReady ==
    \A t \in Tasks :
        task[t].dispatches > 0 => conn[task[t].inst].is_setup_completed

\* C9: every failure inside setup() comes back as (False, message), never as an
\* exception, and leaves the ready flag false; the flag becomes true only in a
\* call that returns (True, "").
C9_SetupReturnsFailures ==
    [][\A i \in DOMAIN conn : Setup(i) =>
          /\ ~setup_result'[i].raised
          /\ SetupBody(conn[i]).exc # "" =>
                 /\ setup_result'[i].ok = FALSE
                 /\ setup_result'[i].message = SetupBody(conn[i]).exc
                 /\ setup_result'[i].message # ""
                 /\ ~conn'[i].is_setup_completed
          /\ (conn'[i].is_setup_completed /\ ~conn[i].is_setup_completed) =>
                 (setup_result'[i].ok /\ setup_result'[i].message = "")]_vars

\* C9 witness: a setup() has returned the failure of the authentication step.
C9_Witness ==
    \E i \in DOMAIN conn :
        /\ ~setup_result[i].ok /\ ~setup_result[i].raised
        /\ setup_result[i].message = "object has no attribute 'get'"
        /\ conn[i].api_instance.loaded
        /\ ~conn[i].is_setup_completed

\* C10: a predict() for which the transport returned a response returns that
\* response's text.
C10_PredictReturnsText ==
    \A t \in Tasks :
        (Finished(t) /\ task[t].result.kind = "return") =>
            task[t].result.value = task[t].outcome.text

----------------------------------------------------------------------------
(* Request building                                                        *)

\* A predict() call of t has been made (it is in flight or has ended).
Called(t) == task[t].pc # "idle" \/ task[t].result.kind # "none"

\* The connector of t's call has a predict_api operation to build a request on.
HasCalledOperation(t) ==
    /\ conn[task[t].inst].api_instance.loaded
    /\ PredictApiOperations(conn[task[t].inst].api_instance) # << >>

\* The operation that t's call builds its request on.
CalledOperation(t) == Head(PredictApiOperations(conn[task[t].inst].api_instance))

\* The priority list of request-body content types.
ContentPriority ==
    <<"application/json", "multipart/form-data", "application/x-www-form-urlencoded">>

\* The first entry of the priority list that is in S, "" when there is none.
FirstSupported(S) ==
    LET found == {k \in 1 .. Len(ContentPriority) : ContentPriority[k] \in S}
    IN IF found = {} THEN ""
       ELSE ContentPriority[CHOOSE k \in found : \A j \in found : k <= j]

IsPost(method) == method \in {"post", "POST", "Post"}

IsGet(method) == method \in {"get", "GET", "Get"}

\* The connector i has a predict_api operation to build a request on.
HasOperation(i) ==
    /\ conn[i].api_instance.loaded
    /\ PredictApiOperations(conn[i].api_instance) # << >>

\* The operation that a predict() on connector i builds its request on.
OperationOf(i) == Head(PredictApiOperations(conn[i].api_instance))

\* C11: for a POST operation declaring the content types S, the request is built
\* on the first entry of the priority list (application/json, multipart/form-data,
\* application/x-www-form-urlencoded) that is in S; when S has none of them the
\* call fails with NotImplementedError and nothing is dispatched.
C11_ContentTypePriority ==
    [][\A t \in Tasks, i \in DOMAIN conn :
          (PredictStart(t, i) /\ HasOperation(i) /\ IsPost(OperationOf(i).method)) =>
              LET S == OperationOf(i).content
              IN /\ task'[t].dispatches > 0 =>
                        task'[t].request.content_type = FirstSupported(S)
                 /\ (FirstSupported(S) # "" /\ OperationOf(i).parameters = << >>) =>
                        (task'[t].dispatches = 1 /\ task'[t].pc = "dispatch")
                 /\ FirstSupported(S) = "" =>
                        /\ task'[t].dispatches = 0
                        /\ task'[t].pc = "idle"
                        /\ task'[t].result.kind = "raise"
                        /\ task'[t].result.exc = "NotImplementedError"]_vars

\* C11 witness: a POST declaring multipart/form-data, x-www-form-urlencoded and
\* text/plain went out with the multipart schema.
C11_Witness ==
    \E t \in Tasks :
        /\ Called(t) /\ HasCalledOperation(t) /\ IsPost(CalledOperation(t).method)
        /\ CalledOperation(t).content =
               {"multipart/form-data", "application/x-www-form-urlencoded", "text/plain"}
        /\ task[t].dispatches > 0
        /\ task[t].request.content_type = "multipart/form-data"

\* C12: when the operation's method is neither POST nor GET (compared without
\* regard to case), the call fails with RuntimeError("Unexpected api method"),
\* nothing is dispatched and the error slot keeps its value.
C12_UnsupportedMethod ==
    [][\A t \in Tasks, i \in DOMAIN conn :
          (/\ PredictStart(t, i)
           /\ HasOperation(i)
           /\ ~IsPost(OperationOf(i).method)
           /\ ~IsGet(OperationOf(i).method)) =>
              /\ task'[t].pc = "idle"
              /\ task'[t].dispatches = 0
              /\ task'[t].result.kind = "raise"
              /\ task'[t].result.exc = "RuntimeError"
              /\ task'[t].result.message = <<"Unexpected api method">>
              /\ response_error_message' = response_error_message]_vars

\* C12 witness: a predict() on a PUT operation has ended with the RuntimeError.
C12_Witness ==
    \E t \in Tasks :
        /\ Finished(t) /\ HasCalledOperation(t)
        /\ CalledOperation(t).method = "PUT"
        /\ task[t].result.message = <<"Unexpected api method">>
        /\ task[t].dispatches = 0

----------------------------------------------------------------------------
(* Authentication                                                          *)

\* The contract of connector i passes validation and loading.
ValidInputs(i) ==
    /\ conn[i].api_config.valid
    /\ conn[i].api_schema.has_paths
    /\ conn[i].api_schema.well_formed

\* C13: setup() on a valid configuration and a contract without security scheme
\* entries (an empty map, or no components section) registers no credential
\* and returns success with the ready flag set.
C13_NoSchemesNoCredentials ==
    [][\A i \in DOMAIN conn :
          (/\ Setup(i)
           /\ ValidInputs(i)
           /\ \/ ~conn[i].api_schema.has_components
              \/ conn[i].api_schema.security_schemes = << >>) =>
              /\ setup_result'[i].ok
              /\ ~setup_result'[i].raised
              /\ setup_result'[i].message = ""
              /\ conn'[i].is_setup_completed
              /\ conn'[i].api_instance.credentials = {}]_vars

\* C13 witness: setup() has succeeded on a contract without a components section.
C13_Witness ==
    \E i \in DOMAIN conn :
        /\ ~conn[i].api_schema.has_components
        /\ setup_result[i].ok
        /\ conn[i].is_setup_completed
        /\ conn[i].api_instance.credentials = {}

----------------------------------------------------------------------------
(* The canonical operation                                                 *)

\* C14: after a successful setup() exactly one operation of the loaded contract
\* carries the identifier predict_api, and it is the first method of the first
\* declared path.
C14_OneCanonicalOperation ==
    \A i \in DOMAIN conn :
        conn[i].is_setup_completed =>
            /\ Len(PredictApiOperations(conn[i].api_instance)) = 1
            /\ Len(conn[i].api_instance.paths) > 0
            /\ Len(conn[i].api_instance.paths[1]) > 0
            /\ conn[i].api_instance.paths[1][1].operationId = "predict_api"

----------------------------------------------------------------------------
(* The lock                                                                *)

\* C15: every read and every write of the error slot is made by a caller that
\* holds the lock: the write of the transport's finalization and the read with
\* which predict() builds its error.
C15_SlotAccessUnderLock ==
    [][\A t \in Tasks : (NotifyWrite(t) \/ PredictExcept(t)) => lock = t]_vars

\* No caller holds the lock while its request is in a dispatch or a sleep.
LockOnlyAroundWrite ==
    \A t \in Tasks : lock = t => task[t].pc \in {"write", "release"}

----------------------------------------------------------------------------
(* The error slot                                                          *)

\* C17: a send writes the slot only at its failure finalization, that is only
\* when the attempt with index maxRetries has ended in a retryable outcome; a
\* send whose terminal attempt got a response that is not retryable, or that
\* ended on an earlier attempt, leaves the slot as it was.
C17_WriteOnlyAtExhaustion ==
    [][\A t \in Tasks :
          /\ NotifyWrite(t) =>
                 (task[t].attempt = api_retries /\ IsRetryable(task[t].outcome))
          /\ (task[t].pc = "dispatch" /\ task'[t].pc \in {"returned", "except"}
                 /\ task'[t].attempt < api_retries) =>
                 response_error_message' = response_error_message]_vars

IsHttp(type) == type \in {"http", "HTTP"}

IsBearer(scheme) == scheme \in {"bearer", "Bearer"}

IsBasic(scheme) == scheme \in {"basic", "Basic"}

\* The value of the configuration's authentication section for key, the empty
\* string when the section or the key is missing.
ConfiguredOrEmpty(config, key) ==
    IF config.auth_kind = "dict" /\ key \in config.auth_keys
    THEN ConfigAuthGet(config, key)
    ELSE ""

\* The credentials that the contract and the configuration call for.
ExpectedCredentials(schema, config) ==
    LET schemes == ComponentsSecuritySchemes(schema)
        entries == {schemes[k] : k \in 1 .. Len(schemes)}
    IN { [name |-> sc.name, value |-> <<ConfiguredOrEmpty(config, "token")>>] :
             sc \in {e \in entries : IsHttp(e.type) /\ IsBearer(e.scheme)} }
       \cup
       { [name |-> sc.name,
          value |-> <<ConfiguredOrEmpty(config, "username"),
                      ConfiguredOrEmpty(config, "password")>>] :
             sc \in {e \in entries : IsHttp(e.type) /\ IsBasic(e.scheme)} }

----------------------------------------------------------------------------
(* Header parameters                                                       *)

\* The header parameters that the request of a POST operation is to carry: the
\* first entry of the enumeration of every required header parameter that has one.
ExpectedHeaders(parameters) ==
    { [name |-> p.name, value |-> p.enum[1]] :
          p \in {q \in {parameters[k] : k \in 1 .. Len(parameters)} :
                    /\ q.in_ \in {"header", "Header"}
                    /\ q.required
                    /\ q.has_enum
                    /\ Len(q.enum) > 0} }

\* C19: the request of a POST operation (with a supported content type) is
\* built whatever its parameters are, and carries exactly the first enumeration
\* entry of every required header parameter with a non-empty enumeration: a
\* required header without enumeration is left unset, and parameters that are
\* not headers or not required are never set.
C19_RequiredHeaders ==
    [][\A t \in Tasks, i \in DOMAIN conn :
          (/\ PredictStart(t, i)
           /\ HasOperation(i)
           /\ IsPost(OperationOf(i).method)
           /\ FirstSupported(OperationOf(i).content) # "") =>
              /\ task'[t].pc = "dispatch"
              /\ task'[t].dispatches = 1
              /\ task'[t].request.headers = ExpectedHeaders(OperationOf(i).parameters)]_vars

\* C20: the error slot belongs to one connector instance: the write of a request
\* of one instance leaves the slot of every other instance as it was.
C20_SlotPerInstance ==
    [][\A t \in Tasks :
          NotifyWrite(t) =>
              \A j \in DOMAIN conn \ {task[t].inst} : SlotOf(j)' = SlotOf(j)]_vars

----------------------------------------------------------------------------
(* The end of a send                                                       *)

\* The send of t's call is under way: from its first dispatch to the point
\* where handle_async_request returns or raises.
InSend(t) == task[t].pc \in {"dispatch", "sleep", "notify", "write", "release"}

\* Every send comes to an end when its dispatches and sleeps complete.
SendTerminates ==
    \A t \in Tasks : InSend(t) ~> (task[t].pc \in {"returned", "except"})

\* C21: a send ends in one of two outcomes, a returned response or the failure
\* "Maximum retries exceeded" of its finalization, after at most maxRetries
\* sleeps (one before each attempt but the first).
C21_SendOutcome ==
    \A t \in Tasks :
        /\ task[t].attempt <= api_retries
        /\ task[t].pc = "sleep" => task[t].attempt < api_retries
        /\ task[t].pc = "except" => task[t].wrote

\* m is a message of the failure finalization: "Maximum retries exceeded (N) ...".
IsExhaustedMessage(m) ==
    /\ Len(m) >= 3
    /\ m[1] = "Maximum retries exceeded ("
    /\ m[2] = ToString(api_retries)
    /\ m[3] = ") "

\* Once a finalization has written the slot, the slot holds such a message.
SlotKeepsMessage == last_writer # "none" => IsExhaustedMessage(response_error_message)

\* The slot changes only in the write of a finalization, whose call then fails,
\* and a slot that holds a message is never emptied.
SlotOnlyOverwritten ==
    /\ response_error_message' # response_error_message =>
           \E t \in Tasks :
               /\ task[t].pc = "write" /\ task'[t].pc = "release"
               /\ response_error_message' =
                      <<"Maximum retries exceeded (", ToString(api_retries), ") ">>
                          \o task[t].error_message
    /\ response_error_message # EmptyStr => IsExhaustedMessage(response_error_message')

\* C22: nothing clears the slot: once a request has gone through the failure
\* finalization the slot holds a "Maximum retries exceeded" message in every
\* later state, through setup() and through calls that return or fail, and it
\* changes only by the write of a later finalization.
C22_SlotNeverCleared == []SlotKeepsMessage /\ [][SlotOnlyOverwritten]_vars

\* C22 witness: a caller whose earlier call wrote the slot has since ended a
\* call with a returned response, and the slot still holds the message.
C22_Witness ==
    \E t \in Tasks :
        /\ last_writer = t
        /\ Finished(t) /\ task[t].result.kind = "return" /\ ~task[t].wrote
        /\ IsExhaustedMessage(response_error_message)

====
